---- MODULE Spec2Model ----
(***************************************************************************)
(* The record store of the dashboard (db_gsheets.py): two Google Sheets     *)
(* worksheets, "records" and "targets", behind a repository layer that      *)
(* falls back to a store kept in st.session_state whenever the backend is   *)
(* missing or a remote call raises.                                         *)
(*                                                                          *)
(* A worksheet is [exists, rows]; rows is what get_all_values() returns: a  *)
(* sequence of rows, each a sequence of cell strings, row 1 first.  Every   *)
(* public operation of the module is an operator on a "world" record (the   *)
(* module globals, st.session_state and the remote workbook) that returns   *)
(* the world after the call together with what the caller sees.  A remote   *)
(* call is named by its call site; an operation runs under a failure        *)
(* pattern f, the set of call sites that raise during that call.            *)
(***************************************************************************)
EXTENDS Integers, Sequences, FiniteSets, TLC

VARIABLES
    _client,             \* module global _client is not None
    _book,               \* module global _book is not None
    _backend_available,  \* module global _backend_available
    secrets,             \* st.secrets holds the service account and the sheet url
    records_ws,          \* the remote worksheet "records"
    targets_ws,          \* the remote worksheet "targets"
    _local_records,      \* st.session_state["_local_records"]
    _local_targets,      \* st.session_state["_local_targets"]
    last,                \* the last call: its arguments and what it returned
    calls,               \* the store-changing calls made so far
    twin,                \* the world of the reference run (healthy backend)
    cache,               \* the st.cache_data entry of load_all_records_cached
    data,                \* st.session_state.data
    inflight,            \* per browser session: how far its insert has run
    records              \* the list a caller keeps from load_all_records(): records = load_all_records()

vars == <<_client, _book, _backend_available, secrets, records_ws, targets_ws,
          _local_records, _local_targets, last, calls, twin, cache, data, inflight,
          records>>

-----------------------------------------------------------------------------
(* Constants of the module *)

RECORDS_HEADER == <<"date", "week", "name", "type", "count">>
TARGETS_HEADER == <<"month", "category", "target">>

-----------------------------------------------------------------------------
(* Bounds and input domains *)

\* store-changing calls per run.  The two repositories change disjoint parts
\* of the state (the records and the targets), so from its first
\* store-changing call on a run stays with one of them: up to MaxCalls calls
\* of insert_or_update_record with load_all_records between them, or up to
\* MaxCalls calls of set_target with get_target and init_target_table between
\* them.
MaxCalls == 2

\* the form's date_input through ymd(): "%Y-%m-%d"
Dates == {"2025-01-10", "2024-12-30"}
\* the forms strip the name and refuse an empty one
Names == {"Aki", "Bo"}
Types == {"new", "exist"}
\* four keys: K1 and one key differing from it in each single field
RecordKeys ==
    { <<"2025-01-10", "Aki", "new">>, <<"2025-01-10", "Aki", "exist">>,
      <<"2025-01-10", "Bo", "new">>, <<"2024-12-30", "Aki", "new">> }
\* the forms call insert_or_update_record only with counts >= 1
Counts == {1, 2}
TargetKeys == { <<"2025-01", "app">>, <<"2025-01", "survey">> }
TargetValues == {2, 5}

-----------------------------------------------------------------------------
(* Strings: str.strip(), str(int), int(str) and strptime on the strings the *)
(* model uses.                                                              *)

\* str.strip(): the cells of the model that carry surrounding blanks
Strip(s) ==
    CASE s = " Aki" -> "Aki"
      [] s = " "    -> ""
      [] OTHER      -> s

Digits == <<"0", "1", "2", "3", "4", "5", "6", "7", "8", "9">>

\* "%02d"
TwoDigits(n) == Digits[(n \div 10) + 1] \o Digits[(n % 10) + 1]

\* the decimal strings a cell shows for the numbers written into it: the
\* counts and targets of the model, and every week number
NumStr == [i \in 1..54 |-> IF i <= 10 THEN Digits[i] ELSE TwoDigits(i - 1)]

\* str(n): what get_all_values() returns for a cell holding the number n
IntToStr(n) == NumStr[n + 1]

\* the strings int() accepts, each with its value
IntTable ==
    [ s \in { NumStr[i] : i \in DOMAIN NumStr } |->
        (CHOOSE i \in DOMAIN NumStr : NumStr[i] = s) - 1 ]

\* int(s) succeeds (int() ignores surrounding blanks)
IsInt(s) == Strip(s) \in DOMAIN IntTable

\* int(s), for a string int() accepts
StrToInt(s) == IntTable[Strip(s)]

IsLeap(y) == (y % 4 = 0) /\ ((y % 100 # 0) \/ (y % 400 = 0))

\* datetime._days_in_month
DaysInMonth(y, m) ==
    IF m = 2 THEN (IF IsLeap(y) THEN 29 ELSE 28)
    ELSE IF m \in {4, 6, 9, 11} THEN 30 ELSE 31

\* the years whose dates the model formats and parses
FirstYear == 2019
LastYear == 2027

\* every calendar date <<y, m, d>> of those years
Calendar ==
    { ymd \in (FirstYear..LastYear) \X (1..12) \X (1..31) :
        ymd[3] <= DaysInMonth(ymd[1], ymd[2]) }

\* d.strftime("%Y-%m-%d")
FormatDate(y, m, d) ==
    TwoDigits(y \div 100) \o TwoDigits(y % 100) \o "-" \o TwoDigits(m) \o "-" \o TwoDigits(d)

\* the zero-padded date strings of the calendar, each with the date it denotes
DateStrings == { <<FormatDate(ymd[1], ymd[2], ymd[3]), ymd>> : ymd \in Calendar }

ParseTable ==
    [ s \in { p[1] : p \in DateStrings } |-> (CHOOSE p \in DateStrings : p[1] = s)[2] ]

\* datetime.strptime(date_str, "%Y-%m-%d").date(): <<y, m, d>>, or <<>> when
\* strptime raises ValueError (every other string of the model: "", names,
\* numbers)
ParseDate(date_str) ==
    IF date_str \in DOMAIN ParseTable THEN ParseTable[date_str] ELSE <<>>

DaysBeforeMonth(y, m) ==
    LET cum == <<0, 31, 59, 90, 120, 151, 181, 212, 243, 273, 304, 334>>
    IN  cum[m] + (IF m > 2 /\ IsLeap(y) THEN 1 ELSE 0)

\* datetime._ymd2ord: the proleptic Gregorian ordinal, 0001-01-01 is day 1
Ymd2Ord(y, m, d) ==
    LET p == y - 1
    IN  p * 365 + (p \div 4) - (p \div 100) + (p \div 400) + DaysBeforeMonth(y, m) + d

\* datetime._isoweek1monday: the ordinal of the Monday that starts ISO week 1
IsoWeek1Monday(y) ==
    LET firstday == Ymd2Ord(y, 1, 1)
        firstweekday == (firstday + 6) % 7
        week1monday == firstday - firstweekday
    IN  IF firstweekday > 3 THEN week1monday + 7 ELSE week1monday

\* date.isocalendar().week without the roll-over into week 1 of the next year
IsoCalendarWeek_no_rollover(y, m, d) ==
    LET today == Ymd2Ord(y, m, d)
        week == (today - IsoWeek1Monday(y)) \div 7
    IN  IF today < IsoWeek1Monday(y)
        THEN ((today - IsoWeek1Monday(y - 1)) \div 7) + 1
        ELSE week + 1

\* date.isocalendar().week
IsoCalendarWeek(y, m, d) ==
    LET today == Ymd2Ord(y, m, d)
        week == (today - IsoWeek1Monday(y)) \div 7
    IN  IF today < IsoWeek1Monday(y)
        THEN ((today - IsoWeek1Monday(y - 1)) \div 7) + 1
        ELSE IF week >= 52 /\ today >= IsoWeek1Monday(y + 1)
        THEN 1
        ELSE week + 1

_iso_week_of(date_str) ==
    LET p == ParseDate(date_str)
    IN  IF p = <<>> THEN 0 ELSE IsoCalendarWeek(p[1], p[2], p[3])

-----------------------------------------------------------------------------
(* The remote workbook: what the gspread calls do to a worksheet *)

\* a worksheet that sh.worksheet(name) does not find
NoWorksheet == [exists |-> FALSE, rows |-> <<>>]

\* sh.add_worksheet(title, rows=1000, cols=26): a new, empty worksheet
AddWorksheet == [exists |-> TRUE, rows |-> <<>>]

\* ws.row_values(1)
RowValues1(ws) == IF ws.rows = <<>> THEN <<>> ELSE ws.rows[1]

\* ws.update("A1:E1", [header]) and ws.update("A1", [header]): the first
\* len(header) cells of row 1 := header; cells to their right stay
UpdateHeader(ws, header) ==
    [ws EXCEPT !.rows =
        IF @ = <<>> THEN <<header>>
        ELSE [@ EXCEPT ![1] = header \o SubSeq(@, Len(header) + 1, Len(@))]]

\* ws.update_cell(row, col, value): the cell shows the number written; a row
\* below the last row of the sheet comes into being with its other cells empty
UpdateCell(ws, row, col, value) ==
    LET blank == [j \in 1..col |-> ""]
        rows == IF row <= Len(ws.rows) THEN ws.rows
                ELSE ws.rows \o [i \in 1..(row - Len(ws.rows)) |-> blank]
    IN  [ws EXCEPT !.rows = [rows EXCEPT ![row][col] = IntToStr(value)]]

\* ws.append_row(row, "RAW", table_range="A1:E1"): the row lands below the
\* last row of the table, in row 1 when the sheet is empty; a row of empty
\* cells leaves the values of the sheet as they were
AppendRow(ws, row) ==
    IF \A i \in DOMAIN row : row[i] = ""
    THEN ws
    ELSE [ws EXCEPT !.rows = Append(@, row)]

\* header.index(k) if k in header else -1, as a 1-based position, 0 for -1
IndexOf(header, k) ==
    IF \E i \in DOMAIN header : header[i] = k
    THEN CHOOSE i \in DOMAIN header :
            header[i] = k /\ \A j \in DOMAIN header : header[j] = k => i <= j
    ELSE 0

\* [c.strip() for c in row]
StripRow(row) == [i \in DOMAIN row |-> Strip(row[i])]

\* row[:n]
Take(row, n) == SubSeq(row, 1, IF Len(row) < n THEN Len(row) ELSE n)

-----------------------------------------------------------------------------
(* Call sites of the remote calls; a failure pattern is a set of them *)

ConnectSites == {"authorize", "open_by_url"}
EnsureSites ==
    {"worksheet", "add_worksheet", "update_new", "row_values", "update_range",
     "update_a1", "worksheet_retry", "add_worksheet_retry"}
RecordSites == {"get_all_values", "update_cell", "update_week", "append_row"}
AllSites == ConnectSites \cup EnsureSites \cup RecordSites

\* a call and the call that retries it after it raised
RetryPairs ==
    { {"worksheet", "worksheet_retry"}, {"add_worksheet", "add_worksheet_retry"},
      {"update_range", "update_a1"} }

\* the failure patterns of an operation whose remote calls are the sites S:
\* nothing raises, one site raises, a call and its retry both raise, or every
\* remote call raises
Patterns(S) ==
    {{}} \cup {{a} : a \in S} \cup {p \in RetryPairs : p \subseteq S} \cup {AllSites}

-----------------------------------------------------------------------------
(* Connector and provisioner *)

\* the world a call runs in, as one record
World ==
    [client |-> _client, book |-> _book, avail |-> _backend_available,
     secrets |-> secrets, rec |-> records_ws, tgt |-> targets_ws,
     lrec |-> _local_records, ltgt |-> _local_targets]

\* a connector that authorizes and opens the workbook on every call
_client_and_book_uncached(w, f) ==
    IF ~w.secrets THEN [w |-> w, ok |-> FALSE]
    ELSE IF "authorize" \in f THEN [w |-> w, ok |-> FALSE]
    ELSE IF "open_by_url" \in f THEN [w |-> [w EXCEPT !.client = TRUE], ok |-> FALSE]
    ELSE [w |-> [w EXCEPT !.client = TRUE, !.book = TRUE], ok |-> TRUE]

\* _client_and_book(): [w, ok]; ok is "both handles are not None"
_client_and_book(w, f) ==
    IF w.client /\ w.book THEN [w |-> w, ok |-> TRUE]
    ELSE IF ~w.secrets THEN [w |-> w, ok |-> FALSE]
    ELSE IF "authorize" \in f THEN [w |-> w, ok |-> FALSE]
    ELSE IF "open_by_url" \in f THEN [w |-> [w EXCEPT !.client = TRUE], ok |-> FALSE]
    ELSE [w |-> [w EXCEPT !.client = TRUE, !.book = TRUE], ok |-> TRUE]

\* lines 112-117 and 152-157: the worksheet was added; its header write is
\* attempted and a failure of it is swallowed
EnsureCreated(header, f) ==
    [ok |-> TRUE,
     ws |-> IF "update_new" \in f THEN AddWorksheet
            ELSE UpdateHeader(AddWorksheet, header),
     writes |-> {"add_worksheet", "update"}]

\* lines 145-159: the handler of the outer try
EnsureRecover(ws, header, f) ==
    IF ws.exists /\ "worksheet_retry" \notin f
    THEN [ok |-> TRUE, ws |-> ws, writes |-> {}]
    ELSE IF ~ws.exists /\ "add_worksheet_retry" \notin f
    THEN EnsureCreated(header, f)
    \* add_worksheet raised (or the title exists already): None
    ELSE [ok |-> FALSE, ws |-> ws, writes |-> {"add_worksheet"}]

\* a provisioner that writes the header without comparing row 1 first
EnsureHeader_uncompared(ws, header, f) ==
    IF "update_range" \notin f \/ "update_a1" \notin f
    THEN [ok |-> TRUE, ws |-> UpdateHeader(ws, header), writes |-> {"update"}]
    ELSE [ok |-> TRUE, ws |-> ws, writes |-> {"update"}]

\* lines 119-143: the worksheet exists; compare row 1 and rewrite it.  The
\* worksheets have the 26 columns of a new sheet, so ws.resize (line 131) is
\* not called.
EnsureHeader(ws, header, f) ==
    LET first_row == IF "row_values" \in f THEN <<>> ELSE RowValues1(ws)
        normalized == StripRow(first_row)
    IN  IF Take(normalized, Len(header)) # header
        THEN IF "update_range" \notin f \/ "update_a1" \notin f
             THEN [ok |-> TRUE, ws |-> UpdateHeader(ws, header), writes |-> {"update"}]
             ELSE [ok |-> TRUE, ws |-> ws, writes |-> {"update"}]
        ELSE [ok |-> TRUE, ws |-> ws, writes |-> {}]

\* _ensure_worksheet(sh, name, header): [ok, ws, writes]; ok is "the result
\* is not None", ws the worksheet afterwards, writes the calls it issued that
\* write to the workbook.  sh is "the workbook is not None".
_ensure_worksheet(sh, ws, header, f) ==
    IF ~sh THEN [ok |-> FALSE, ws |-> ws, writes |-> {}]
    ELSE IF "worksheet" \in f THEN EnsureRecover(ws, header, f)
    ELSE IF ~ws.exists
    THEN IF "add_worksheet" \in f
         THEN EnsureRecover(ws, header, f)
         ELSE EnsureCreated(header, f)
    ELSE EnsureHeader(ws, header, f)

-----------------------------------------------------------------------------
(* Record repository *)

\* the smallest element of a non-empty set of numbers
Min(S) == CHOOSE i \in S : \A j \in S : i <= j

\* int(s) inside try/except: 0 when int() raises
IntOr0(s) == IF IsInt(s) THEN StrToInt(s) ELSE 0

\* a comparison that does not strip the cell
CellIs_unstripped(r, idx, value) == idx > 0 /\ idx <= Len(r) /\ r[idx] = value

\* a cell of a row read through a column index, compared with a key field:
\* idx >= 0 and idx < len(r) and r[idx].strip() == value
CellIs(r, idx, value) == idx > 0 /\ idx <= Len(r) /\ Strip(r[idx]) = value

\* r[idx].strip() if idx >= 0 and idx < len(r) else default
CellOr(r, idx, default) == IF idx > 0 /\ idx <= Len(r) THEN Strip(r[idx]) ELSE default

\* an upsert that takes the count away from the row it finds
LocalUpsert_subtract(recs, date_str, name, typ, count, week_num) ==
    LET hits == {i \in DOMAIN recs :
                    recs[i].date = date_str /\ recs[i].name = name /\ recs[i].type = typ}
    IN  IF hits # {}
        THEN [recs EXCEPT ![Min(hits)].count = @ - count]
        ELSE Append(recs, [date |-> date_str, week |-> week_num, name |-> name,
                           type |-> typ, count |-> count])

\* an upsert that overwrites the count of the row it finds
LocalUpsert_replace(recs, date_str, name, typ, count, week_num) ==
    LET hits == {i \in DOMAIN recs :
                    recs[i].date = date_str /\ recs[i].name = name /\ recs[i].type = typ}
    IN  IF hits # {}
        THEN [recs EXCEPT ![Min(hits)].count = count]
        ELSE Append(recs, [date |-> date_str, week |-> week_num, name |-> name,
                           type |-> typ, count |-> count])

\* lines 366-373 (and 279-289): the upsert into the list of local records
LocalUpsert(recs, date_str, name, typ, count, week_num) ==
    LET hits == {i \in DOMAIN recs :
                    recs[i].date = date_str /\ recs[i].name = name /\ recs[i].type = typ}
    IN  IF hits # {}
        THEN [recs EXCEPT ![Min(hits)].count = @ + count]
        ELSE Append(recs, [date |-> date_str, week |-> week_num, name |-> name,
                           type |-> typ, count |-> count])

\* a fallback that returns without writing
insert_or_update_record_local_dropped(w, date_str, name, typ, count, week_num) == w

\* insert_or_update_record_local: the world after the local write
insert_or_update_record_local(w, date_str, name, typ, count, week_num) ==
    [w EXCEPT !.lrec = LocalUpsert(@, date_str, name, typ, count, week_num)]

\* lines 335-350: the row to append, cells placed by the header's indices
NewRecordRow(header, date_str, week_num, name, typ, count) ==
    [j \in 1..5 |->
        IF j = IndexOf(header, "count") THEN IntToStr(count)
        ELSE IF j = IndexOf(header, "type") THEN typ
        ELSE IF j = IndexOf(header, "name") THEN name
        ELSE IF j = IndexOf(header, "week") THEN IntToStr(week_num)
        ELSE IF j = IndexOf(header, "date") THEN date_str
        ELSE ""]

\* lines 298-321: what the body of the try takes from the values it has read:
\* the header's indices, the 1-based number of the first row with the key
\* (0 when there is none) and the count to write into it
InsertScan(values, date_str, name, typ, count) ==
    LET header == IF values # <<>> THEN values[1] ELSE RECORDS_HEADER
        iDate == IndexOf(header, "date")
        iName == IndexOf(header, "name")
        iType == IndexOf(header, "type")
        iCount == IndexOf(header, "count")
        hits == {i \in 2..Len(values) :
                    /\ CellIs(values[i], iDate, date_str)
                    /\ CellIs(values[i], iName, name)
                    /\ CellIs(values[i], iType, typ)}
        target_row_index == IF hits = {} THEN 0 ELSE Min(hits)
    IN  [header |-> header,
         target_row_index |-> target_row_index,
         \* values[row][idx["count"]] with idx -1 reads the last cell
         new_val |-> IF target_row_index = 0 THEN count
                     ELSE LET r == values[target_row_index]
                          IN  IntOr0(r[IF iCount > 0 THEN iCount ELSE Len(r)]) + count]

\* lines 323-324: ws.update_cell(target_row_index, cnt_col, new_val)
InsertWriteCount(ws, scan) ==
    UpdateCell(ws, scan.target_row_index, IndexOf(scan.header, "count"), scan.new_val)

\* lines 327-328: ws.update_cell(target_row_index, idx["week"] + 1, week_num)
InsertWriteWeek(ws, scan, week_num) ==
    UpdateCell(ws, scan.target_row_index, IndexOf(scan.header, "week"), week_num)

\* lines 333-355: ws.append_row(row) with the cells placed by the indices
InsertAppend(ws, scan, date_str, week_num, name, typ, count) ==
    AppendRow(ws, NewRecordRow(scan.header, date_str, week_num, name, typ, count))

\* lines 298-355, the body of the try: [w, exc, wrote]; exc is "a statement
\* of the body raised", w the world at that moment (or at the return), wrote
\* is "a remote write of the body succeeded"
InsertTry(w, date_str, name, typ, count, week_num, f) ==
    IF "get_all_values" \in f THEN [w |-> w, exc |-> TRUE, wrote |-> FALSE]
    ELSE
    LET scan == InsertScan(w.rec.rows, date_str, name, typ, count)
        iWeek == IndexOf(scan.header, "week")
        iCount == IndexOf(scan.header, "count")
    IN  IF scan.target_row_index > 0
        THEN LET w2 == [w EXCEPT !.rec = InsertWriteCount(@, scan)]
             IN  \* update_cell(row, 0, v) raises: gspread has no column 0
                 IF iCount = 0 \/ "update_cell" \in f
                 THEN [w |-> w, exc |-> TRUE, wrote |-> FALSE]
                 ELSE IF iWeek = 0
                 THEN [w |-> w2, exc |-> FALSE, wrote |-> TRUE]
                 ELSE IF "update_week" \in f
                 THEN [w |-> w2, exc |-> TRUE, wrote |-> TRUE]
                 ELSE [w |-> [w2 EXCEPT !.rec = InsertWriteWeek(@, scan, week_num)],
                       exc |-> FALSE, wrote |-> TRUE]
        ELSE IF "append_row" \in f
             THEN [w |-> w, exc |-> TRUE, wrote |-> FALSE]
             ELSE [w |-> [w EXCEPT !.rec = InsertAppend(@, scan, date_str, week_num,
                                                        name, typ, count)],
                   exc |-> FALSE, wrote |-> TRUE]

\* a handler that lets the exception of the body reach the caller
InsertExcept_reraise(body, date_str, name, typ, count, week_num) ==
    [w |-> body.w, raised |-> TRUE, svc |-> IF body.wrote THEN "backend" ELSE "none"]

\* lines 357-359: except Exception: insert_or_update_record_local(...)
InsertExcept(body, date_str, name, typ, count, week_num) ==
    [w |-> insert_or_update_record_local(body.w, date_str, name, typ, count, week_num),
     raised |-> FALSE,
     svc |-> IF body.wrote THEN "both" ELSE "local"]

\* insert_or_update_record(date_str, name, typ, count) under the failure
\* pattern f: [w, raised, svc]; svc names the store(s) whose write path ran
insert_or_update_record(w, date_str, name, typ, count, f) ==
    LET week_num == _iso_week_of(date_str)
    IN  IF ~w.avail
        THEN [w |-> [w EXCEPT !.lrec =
                        LocalUpsert(@, date_str, name, typ, count, week_num)],
              raised |-> FALSE, svc |-> "local"]
        ELSE
        LET cb == _client_and_book(w, f)
            ens == _ensure_worksheet(cb.ok, cb.w.rec, RECORDS_HEADER, f)
            w1 == [cb.w EXCEPT !.rec = ens.ws]
        IN  IF ~ens.ok
            THEN [w |-> insert_or_update_record_local(w1, date_str, name, typ,
                                                      count, week_num),
                  raised |-> FALSE, svc |-> "local"]
            ELSE
            LET body == InsertTry(w1, date_str, name, typ, count, week_num, f)
            IN  IF body.exc
                THEN InsertExcept(body, date_str, name, typ, count, week_num)
                ELSE [w |-> body.w, raised |-> FALSE, svc |-> "backend"]

\* lines 228-255: one row of the sheet as a record, read through the header
ParseRecord(r, header) ==
    LET d == CellOr(r, IndexOf(header, "date"), "")
        iWeek == IndexOf(header, "week")
    IN  [date |-> d,
         week |-> IF iWeek > 0 /\ iWeek <= Len(r) /\ Strip(r[iWeek]) # ""
                  THEN IF IsInt(r[iWeek]) THEN StrToInt(r[iWeek]) ELSE _iso_week_of(d)
                  ELSE _iso_week_of(d),
         name |-> CellOr(r, IndexOf(header, "name"), ""),
         type |-> CellOr(r, IndexOf(header, "type"), ""),
         count |-> IntOr0(CellOr(r, IndexOf(header, "count"), "0"))]

\* line 248: if not d or not nm or not tp: continue
RecordComplete(p) == p.date # "" /\ p.name # "" /\ p.type # ""

\* lines 219-257: the records of the values read from the sheet
RecordsOfValues(values) ==
    IF Len(values) <= 1 THEN <<>>
    ELSE LET header == StripRow(values[1])
             parsed == [i \in 1..(Len(values) - 1) |-> ParseRecord(values[i + 1], header)]
         IN  SelectSeq(parsed, RecordComplete)

\* lines 213-217: except Exception: return the local records
LoadExcept(w) == [w |-> w, out |-> w.lrec, raised |-> FALSE, svc |-> "local"]

\* load_all_records() under the failure pattern f: [w, out, raised, svc]
load_all_records(w, f) ==
    IF ~w.avail THEN [w |-> w, out |-> w.lrec, raised |-> FALSE, svc |-> "local"]
    ELSE
    LET cb == _client_and_book(w, f)
    IN  IF ~cb.ok
        THEN [w |-> cb.w, out |-> cb.w.lrec, raised |-> FALSE, svc |-> "local"]
        ELSE
        LET ens == _ensure_worksheet(TRUE, cb.w.rec, RECORDS_HEADER, f)
            w1 == [cb.w EXCEPT !.rec = ens.ws]
        IN  IF ~ens.ok
            THEN [w |-> w1, out |-> w1.lrec, raised |-> FALSE, svc |-> "local"]
            ELSE IF "get_all_values" \in f
            THEN LoadExcept(w1)
            ELSE [w |-> w1, out |-> RecordsOfValues(w1.rec.rows),
                  raised |-> FALSE, svc |-> "backend"]

-----------------------------------------------------------------------------
(* delete_record, which data_management.py imports and calls: locate the    *)
(* first row with the key, verify it again, delete it, and say whether a row *)
(* was deleted; the fallback deletes from the local list                     *)

\* the remote calls of delete_record after the provisioner
DeleteSites == {"get_all_values", "delete_rows"}

\* ws.delete_rows(i): the rows below row i move up
DeleteRow(ws, i) ==
    [ws EXCEPT !.rows = SubSeq(@, 1, i - 1) \o SubSeq(@, i + 1, Len(@))]

\* the local list without its first entry of the key; the list itself when
\* no entry has the key
LocalDelete(recs, date_str, name, typ) ==
    LET hits == {i \in DOMAIN recs :
                    recs[i].date = date_str /\ recs[i].name = name /\ recs[i].type = typ}
    IN  IF hits = {} THEN recs
        ELSE SubSeq(recs, 1, Min(hits) - 1) \o SubSeq(recs, Min(hits) + 1, Len(recs))

\* the fallback of delete_record: [w, ret, raised, svc]
delete_record_local(w, date_str, name, typ) ==
    [w |-> [w EXCEPT !.lrec = LocalDelete(@, date_str, name, typ)],
     ret |-> LocalDelete(w.lrec, date_str, name, typ) # w.lrec,
     raised |-> FALSE, svc |-> "local"]

\* delete_record(date_str, name, typ) under the failure pattern f:
\* [w, ret, raised, svc]; ret is the value returned
delete_record(w, date_str, name, typ, f) ==
    IF ~w.avail THEN delete_record_local(w, date_str, name, typ)
    ELSE
    LET cb == _client_and_book(w, f)
        ens == _ensure_worksheet(cb.ok, cb.w.rec, RECORDS_HEADER, f)
        w1 == [cb.w EXCEPT !.rec = ens.ws]
    IN  IF ~ens.ok \/ "get_all_values" \in f
        THEN delete_record_local(w1, date_str, name, typ)
        ELSE
        LET values == w1.rec.rows
            header == IF values # <<>> THEN StripRow(values[1]) ELSE RECORDS_HEADER
            hits == {i \in 2..Len(values) :
                        /\ CellIs(values[i], IndexOf(header, "date"), date_str)
                        /\ CellIs(values[i], IndexOf(header, "name"), name)
                        /\ CellIs(values[i], IndexOf(header, "type"), typ)}
        IN  IF hits = {}
            THEN [w |-> w1, ret |-> FALSE, raised |-> FALSE, svc |-> "backend"]
            ELSE IF "delete_rows" \in f
            THEN delete_record_local(w1, date_str, name, typ)
            ELSE [w |-> [w1 EXCEPT !.rec = DeleteRow(@, Min(hits))],
                  ret |-> TRUE, raised |-> FALSE, svc |-> "backend"]

-----------------------------------------------------------------------------
(* Target repository *)

\* int(st.session_state.get("_local_targets", {}).get(key, 0))
LocalTarget(ltgt, key) == IF key \in DOMAIN ltgt THEN ltgt[key] ELSE 0

\* a write that adds the target to the one the mapping holds
LocalSetTarget_add(ltgt, key, target) ==
    [k \in DOMAIN ltgt \cup {key} |->
        IF k = key THEN (IF key \in DOMAIN ltgt THEN ltgt[key] ELSE 0) + target
        ELSE ltgt[k]]

\* local[(month, category)] = int(target)
LocalSetTarget(ltgt, key, target) ==
    [k \in DOMAIN ltgt \cup {key} |-> IF k = key THEN target ELSE ltgt[k]]

\* lines 406-410 and 449-455: the first row after row 1 that holds the key
\* under the header's indices, as a 1-based row number; 0 when there is none
TargetRowIndex(values, header, month, category) ==
    LET hits == {i \in 2..Len(values) :
                    /\ CellIs(values[i], IndexOf(header, "month"), month)
                    /\ CellIs(values[i], IndexOf(header, "category"), category)}
    IN  IF hits = {} THEN 0 ELSE Min(hits)

\* lines 397-415: the target read from the values of the sheet
TargetOfValues(values, month, category) ==
    IF Len(values) <= 1 THEN 0
    ELSE LET header == StripRow(values[1])
             i == TargetRowIndex(values, header, month, category)
             idx_t == IndexOf(header, "target")
         IN  IF i = 0 THEN 0
             ELSE IF idx_t > 0 /\ idx_t <= Len(values[i])
             THEN IntOr0(values[i][idx_t])
             ELSE 0

\* lines 417-419: except Exception: return the local target
GetTargetExcept(w, month, category) ==
    [w |-> w, ret |-> LocalTarget(w.ltgt, <<month, category>>), raised |-> FALSE,
     svc |-> "local"]

\* get_target(month, category) under the failure pattern f: [w, ret, raised, svc]
get_target(w, month, category, f) ==
    IF ~w.avail
    THEN [w |-> w, ret |-> LocalTarget(w.ltgt, <<month, category>>), raised |-> FALSE,
          svc |-> "local"]
    ELSE
    LET cb == _client_and_book(w, f)
        ens == _ensure_worksheet(cb.ok, cb.w.tgt, TARGETS_HEADER, f)
        w1 == [cb.w EXCEPT !.tgt = ens.ws]
    IN  IF ~ens.ok
        THEN [w |-> w1, ret |-> LocalTarget(w1.ltgt, <<month, category>>),
              raised |-> FALSE, svc |-> "local"]
        ELSE IF "get_all_values" \in f
        THEN GetTargetExcept(w1, month, category)
        ELSE [w |-> w1, ret |-> TargetOfValues(w1.tgt.rows, month, category),
              raised |-> FALSE, svc |-> "backend"]

\* lines 462-465: the row to append, cells placed by the header's indices
NewTargetRow(header, month, category, target) ==
    [j \in 1..3 |->
        IF j = IndexOf(header, "target") THEN IntToStr(target)
        ELSE IF j = IndexOf(header, "category") THEN category
        ELSE IF j = IndexOf(header, "month") THEN month
        ELSE ""]

\* lines 441-467, the body of the try: [w, exc]
SetTargetTry(w, month, category, target, f) ==
    IF "get_all_values" \in f THEN [w |-> w, exc |-> TRUE]
    ELSE
    LET values == w.tgt.rows
        header == IF values # <<>> THEN values[1] ELSE TARGETS_HEADER
        idx_t == IndexOf(header, "target")
        row_to_update == TargetRowIndex(values, header, month, category)
    IN  IF row_to_update > 0
        THEN \* update_cell(row, 0, v) raises: gspread has no column 0
             IF idx_t = 0 \/ "update_cell" \in f
             THEN [w |-> w, exc |-> TRUE]
             ELSE [w |-> [w EXCEPT !.tgt = UpdateCell(@, row_to_update, idx_t, target)],
                   exc |-> FALSE]
        ELSE IF "append_row" \in f
             THEN [w |-> w, exc |-> TRUE]
             ELSE [w |-> [w EXCEPT !.tgt = AppendRow(@,
                            NewTargetRow(header, month, category, target))],
                   exc |-> FALSE]

\* lines 469-473: except Exception: write the local target
SetTargetExcept(body, month, category, target) ==
    [w |-> [body.w EXCEPT !.ltgt = LocalSetTarget(@, <<month, category>>, target)],
     raised |-> FALSE, svc |-> "local"]

\* set_target(month, category, target) under the failure pattern f:
\* [w, raised, svc]
set_target(w, month, category, target, f) ==
    IF ~w.avail
    THEN [w |-> [w EXCEPT !.ltgt = LocalSetTarget(@, <<month, category>>, target)],
          raised |-> FALSE, svc |-> "local"]
    ELSE
    LET cb == _client_and_book(w, f)
        ens == _ensure_worksheet(cb.ok, cb.w.tgt, TARGETS_HEADER, f)
        w1 == [cb.w EXCEPT !.tgt = ens.ws]
    IN  IF ~ens.ok
        THEN [w |-> [w1 EXCEPT !.ltgt = LocalSetTarget(@, <<month, category>>, target)],
              raised |-> FALSE, svc |-> "local"]
        ELSE
        LET body == SetTargetTry(w1, month, category, target, f)
        IN  IF body.exc
            THEN SetTargetExcept(body, month, category, target)
            ELSE [w |-> body.w, raised |-> FALSE, svc |-> "backend"]

-----------------------------------------------------------------------------
(* Initialisation *)

\* an init_db that starts the local fallback structures afresh
init_db_local_reset(w, f) ==
    LET cb == _client_and_book(w, f)
    IN  IF cb.ok
        THEN LET r == _ensure_worksheet(TRUE, cb.w.rec, RECORDS_HEADER, f)
                 t == _ensure_worksheet(TRUE, cb.w.tgt, TARGETS_HEADER, f)
             IN  [w |-> [cb.w EXCEPT !.rec = r.ws, !.tgt = t.ws, !.avail = TRUE,
                                     !.lrec = <<>>, !.ltgt = <<>>],
                  raised |-> FALSE]
        ELSE [w |-> [cb.w EXCEPT !.avail = FALSE, !.lrec = <<>>, !.ltgt = <<>>],
              raised |-> FALSE]

\* an init_db that selects the backend whether or not the connector succeeded
init_db_backend_assumed(w, f) ==
    LET cb == _client_and_book(w, f)
    IN  IF cb.ok
        THEN LET r == _ensure_worksheet(TRUE, cb.w.rec, RECORDS_HEADER, f)
                 t == _ensure_worksheet(TRUE, cb.w.tgt, TARGETS_HEADER, f)
             IN  [w |-> [cb.w EXCEPT !.rec = r.ws, !.tgt = t.ws, !.avail = TRUE],
                  raised |-> FALSE]
        ELSE [w |-> [cb.w EXCEPT !.avail = TRUE], raised |-> FALSE]

\* init_db() under the failure pattern f: [w, raised]
init_db(w, f) ==
    LET cb == _client_and_book(w, f)
    IN  IF cb.ok
        THEN LET r == _ensure_worksheet(TRUE, cb.w.rec, RECORDS_HEADER, f)
                 t == _ensure_worksheet(TRUE, cb.w.tgt, TARGETS_HEADER, f)
             IN  [w |-> [cb.w EXCEPT !.rec = r.ws, !.tgt = t.ws, !.avail = TRUE],
                  raised |-> FALSE]
        ELSE [w |-> [cb.w EXCEPT !.avail = FALSE], raised |-> FALSE]

\* init_target_table() under the failure pattern f: [w, raised]
init_target_table(w, f) ==
    LET cb == _client_and_book(w, f)
    IN  IF ~(cb.w.avail /\ cb.ok)
        THEN [w |-> cb.w, raised |-> FALSE]
        ELSE [w |-> [cb.w EXCEPT !.tgt =
                        _ensure_worksheet(TRUE, @, TARGETS_HEADER, f).ws],
              raised |-> FALSE]

-----------------------------------------------------------------------------
(* What the stores hold *)

\* the (date, name, type) of a record
KeyOf(p) == <<p.date, p.name, p.type>>

\* row 1 is a header row: it names every column of the header, in any order
IsHeaderRow(row, header) ==
    \A i \in DOMAIN header : IndexOf(StripRow(row), header[i]) > 0

\* the data rows of a sheet as records: the rows below row 1 read through the
\* header in row 1; when row 1 is no header (it holds a row appended while the
\* sheet had none), every row read in the canonical column order
StoredRows(values) ==
    IF values = <<>> THEN <<>>
    ELSE IF IsHeaderRow(values[1], RECORDS_HEADER)
    THEN [i \in 1..(Len(values) - 1) |-> ParseRecord(values[i + 1], StripRow(values[1]))]
    ELSE [i \in 1..Len(values) |-> ParseRecord(values[i], RECORDS_HEADER)]

\* the stored rows whose date, name and type are all non-empty
CompleteRows(values) == SelectSeq(StoredRows(values), RecordComplete)

\* the records of a sequence that carry the key k
WithKey(recs, k) == SelectSeq(recs, LAMBDA p : KeyOf(p) = k)

\* the sum of the counts of a sequence of records
RECURSIVE SumCounts(_)
SumCounts(recs) ==
    IF recs = <<>> THEN 0 ELSE Head(recs).count + SumCounts(Tail(recs))

\* the aggregated data of a sequence of records: its keys, each with the sum
\* of the counts recorded under it
Aggregated(recs) ==
    { <<KeyOf(recs[i]), SumCounts(WithKey(recs, KeyOf(recs[i])))>> : i \in DOMAIN recs }

\* one row of the targets sheet as [month, category, target]
ParseTarget(r, header) ==
    [month |-> CellOr(r, IndexOf(header, "month"), ""),
     category |-> CellOr(r, IndexOf(header, "category"), ""),
     target |-> IntOr0(CellOr(r, IndexOf(header, "target"), "0"))]

\* the data rows of the targets sheet, read as StoredRows reads the records
StoredTargets(values) ==
    IF values = <<>> THEN <<>>
    ELSE IF IsHeaderRow(values[1], TARGETS_HEADER)
    THEN [i \in 1..(Len(values) - 1) |-> ParseTarget(values[i + 1], StripRow(values[1]))]
    ELSE [i \in 1..Len(values) |-> ParseTarget(values[i], TARGETS_HEADER)]

\* the stored targets of the key (month, category)
TargetsOf(values, k) ==
    SelectSeq(StoredTargets(values), LAMBDA t : t.month = k[1] /\ t.category = k[2])

-----------------------------------------------------------------------------
(* The state machine: one client session calling the public operations *)

\* the workbook as the session finds it: no worksheets yet, blank tabs,
\* provisioned tabs, tabs whose header row was reordered by hand, and a
\* provisioned workbook with two hand-typed rows (a padded name, no name)
Workbooks ==
    { [rec |-> NoWorksheet, tgt |-> NoWorksheet],
      [rec |-> AddWorksheet, tgt |-> AddWorksheet],
      [rec |-> [exists |-> TRUE, rows |-> <<RECORDS_HEADER>>],
       tgt |-> [exists |-> TRUE, rows |-> <<TARGETS_HEADER>>]],
      [rec |-> [exists |-> TRUE, rows |-> <<<<"name", "date", "week", "type", "count">>>>],
       tgt |-> [exists |-> TRUE, rows |-> <<<<"category", "month", "target">>>>]],
      [rec |-> [exists |-> TRUE,
                rows |-> <<RECORDS_HEADER,
                           <<"2025-01-10", "2", " Aki", "new", "1">>,
                           <<"2025-01-10", "2", "", "exist", "2">>>>],
       tgt |-> [exists |-> TRUE, rows |-> <<TARGETS_HEADER>>]] }

\* workbooks that hold no row below the header
EmptyWorkbooks == {b \in Workbooks : Len(b.rec.rows) <= 1 /\ Len(b.tgt.rows) <= 1}

\* what the state remembers of the last call: the operation, the arguments
\* of a write, whether it raised, the store(s) whose write path ran, whether
\* no remote call raised during it, for an insert, whether neither store
\* held a row for the key when it began, and for a week computation the
\* date that was formatted (rkey[1] the string, count the week returned)
NoCall ==
    [op |-> "none", rkey |-> <<"", "", "">>, count |-> 0, tkey |-> <<"", "">>,
     target |-> 0, raised |-> FALSE, svc |-> "none", clean |-> TRUE,
     fresh |-> FALSE, ymd |-> <<>>]

\* neither store holds a row for the record key k
NoRowFor(w, k) ==
    /\ WithKey(CompleteRows(w.rec.rows), k) = <<>>
    /\ WithKey(w.lrec, k) = <<>>

\* the browser sessions the one server process runs; they share the module
\* globals and the workbook
Sessions == {"s1", "s2"}

\* a session that is not inside insert_or_update_record
Idle ==
    [pc |-> "idle", op |-> "none", key |-> <<"", "", "">>, count |-> 0,
     scan |-> [header |-> <<>>, target_row_index |-> 0, new_val |-> 0]]

\* st.cache_data holds no result for load_all_records_cached
NoCache == [valid |-> FALSE, value |-> <<>>]

\* "data" not in st.session_state
NoData == [set |-> FALSE, value |-> <<>>]

\* no caller keeps a list of records
NoRecords == [kept |-> FALSE, shared |-> FALSE, value |-> <<>>]

InitWith(books) ==
    /\ _client = FALSE
    /\ _book = FALSE
    /\ _backend_available = FALSE
    /\ secrets \in BOOLEAN
    /\ \E b \in books : records_ws = b.rec /\ targets_ws = b.tgt
    /\ _local_records = <<>>
    /\ _local_targets = <<>>
    /\ last = NoCall
    /\ calls = [insert |-> 0, set_target |-> 0, set_keys |-> {}]
    /\ cache = NoCache
    /\ data = NoData
    /\ inflight = [s \in Sessions |-> Idle]
    /\ records = NoRecords

Init == InitWith(Workbooks) /\ twin = World

\* the world after a call becomes the state
InstallWorld(w) ==
    /\ _client' = w.client
    /\ _book' = w.book
    /\ _backend_available' = w.avail
    /\ secrets' = w.secrets
    /\ records_ws' = w.rec
    /\ targets_ws' = w.tgt
    /\ _local_records' = w.lrec
    /\ _local_targets' = w.ltgt

\* a call of the store made outside the pages' handlers: the page state stays
Install(w) == InstallWorld(w) /\ UNCHANGED <<cache, data, inflight, records>>

InitSites == ConnectSites \cup EnsureSites
ReadSites == EnsureSites \cup {"get_all_values"}
WriteSites == EnsureSites \cup RecordSites

InitDb ==
    \E f \in Patterns(InitSites) :
        \E r \in {init_db(World, f)} :
            /\ Install(r.w)
            /\ last' = [NoCall EXCEPT !.op = "init_db", !.raised = r.raised]
            /\ UNCHANGED <<calls, twin>>

InitTargetTable ==
    /\ calls.insert = 0
    /\ \E f \in Patterns(InitSites) :
        \E r \in {init_target_table(World, f)} :
            /\ Install(r.w)
            /\ last' = [NoCall EXCEPT !.op = "init_target_table", !.raised = r.raised]
            /\ UNCHANGED <<calls, twin>>

LoadAllRecords ==
    /\ calls.set_target = 0
    /\ \E f \in Patterns(ReadSites) :
        \E r \in {load_all_records(World, f)} :
            /\ Install(r.w)
            /\ last' = [NoCall EXCEPT !.op = "load_all_records", !.raised = r.raised]
            /\ UNCHANGED <<calls, twin>>

InsertOrUpdateRecord ==
    /\ calls.insert < MaxCalls /\ calls.set_target = 0
    /\ \E k \in RecordKeys, c \in Counts, f \in Patterns(WriteSites) :
        \E r \in {insert_or_update_record(World, k[1], k[2], k[3], c, f)} :
            /\ Install(r.w)
            /\ last' = [NoCall EXCEPT !.op = "insert_or_update_record", !.rkey = k,
                                      !.count = c, !.raised = r.raised, !.svc = r.svc,
                                      !.clean = (f = {}),
                                      !.fresh = NoRowFor(World, k)]
            /\ calls' = [calls EXCEPT !.insert = @ + 1]
            /\ UNCHANGED twin

GetTarget ==
    /\ calls.insert = 0
    /\ \E k \in TargetKeys, f \in Patterns(ReadSites) :
        \E r \in {get_target(World, k[1], k[2], f)} :
            /\ Install(r.w)
            /\ last' = [NoCall EXCEPT !.op = "get_target", !.raised = r.raised]
            /\ UNCHANGED <<calls, twin>>

SetTarget ==
    /\ calls.set_target < MaxCalls /\ calls.insert = 0
    /\ \E k \in TargetKeys, v \in TargetValues, f \in Patterns(WriteSites) :
        \E r \in {set_target(World, k[1], k[2], v, f)} :
            /\ Install(r.w)
            /\ last' = [NoCall EXCEPT !.op = "set_target", !.tkey = k, !.target = v,
                                      !.raised = r.raised, !.svc = r.svc,
                                      !.clean = (f = {})]
            /\ calls' = [calls EXCEPT !.set_target = @ + 1, !.set_keys = @ \cup {k}]
            /\ UNCHANGED twin

Next ==
    \/ InitDb
    \/ InitTargetTable
    \/ LoadAllRecords
    \/ InsertOrUpdateRecord
    \/ GetTarget
    \/ SetTarget

Spec == Init /\ [][Next]_vars

\* the record repository alone
NextRecords ==
    \/ InitDb
    \/ LoadAllRecords
    \/ InsertOrUpdateRecord

SpecRecords == Init /\ [][NextRecords]_vars

\* the target repository alone
NextTargets ==
    \/ InitDb
    \/ InitTargetTable
    \/ GetTarget
    \/ SetTarget

SpecTargets == Init /\ [][NextTargets]_vars

-----------------------------------------------------------------------------
(* The record repository with the management page's delete *)

DeleteRecord ==
    \E k \in RecordKeys, f \in Patterns(EnsureSites \cup DeleteSites) :
        \E r \in {delete_record(World, k[1], k[2], k[3], f)} :
            /\ Install(r.w)
            /\ last' = [NoCall EXCEPT !.op = "delete_record", !.rkey = k,
                                      !.raised = r.raised, !.svc = r.svc,
                                      !.clean = (f = {})]
            /\ UNCHANGED <<calls, twin>>

NextDelete ==
    \/ InitDb
    \/ InsertOrUpdateRecord
    \/ DeleteRecord

SpecDelete == Init /\ [][NextDelete]_vars

-----------------------------------------------------------------------------
(* A session as the pages run it: _init_once calls init_db before any other  *)
(* operation of the store; init_db may be called again later.                *)

Initialised == last.op # "none"

NextSession ==
    \/ InitDb
    \/ (Initialised /\ InitTargetTable)
    \/ (Initialised /\ LoadAllRecords)
    \/ (Initialised /\ InsertOrUpdateRecord)
    \/ (Initialised /\ GetTarget)
    \/ (Initialised /\ SetTarget)

SpecSession == Init /\ [][NextSession]_vars

-----------------------------------------------------------------------------
(* The page (staff_recommend_app.py): the cached loader, the session's       *)
(* data, the entry form and the refresh button.                              *)

\* @st.cache_data(ttl=60) load_all_records_cached(): the cached result when
\* there is one, else the result of load_all_records(), which is cached
load_all_records_cached(w, c, f) ==
    IF c.valid THEN [w |-> w, out |-> c.value, cache |-> c]
    ELSE LET r == load_all_records(w, f)
         IN  [w |-> r.w, out |-> r.out, cache |-> [valid |-> TRUE, value |-> r.out]]

\* the date st.date_input hands to the form and the name typed into it: one
\* staff member on one day, so that the submissions meet on the keys
\* (date, name, "new") and (date, name, "exist")
FormDates == { <<2024, 12, 30>> }
FormNames == {"Aki"}

\* st.number_input(min_value=0, step=1)
FormCounts == {0} \cup Counts

\* if cnt > 0: insert_or_update_record(ymd(d), name, typ, int(cnt))
InsertIfPositive(w, d, name, typ, cnt, f) ==
    IF cnt > 0
    THEN insert_or_update_record(w, FormatDate(d[1], d[2], d[3]), name, typ, cnt, f).w
    ELSE w

\* a submit handler that reloads without clearing the cache
app_form_cache_kept(w, c, dt, d, name, new_cnt, exist_cnt, f) ==
    IF new_cnt + exist_cnt = 0
    THEN [w |-> w, cache |-> c, data |-> dt]
    ELSE LET w1 == InsertIfPositive(w, d, name, "new", new_cnt, f)
             w2 == InsertIfPositive(w1, d, name, "exist", exist_cnt, f)
             r == load_all_records_cached(w2, c, f)
         IN  [w |-> r.w, cache |-> r.cache, data |-> [set |-> TRUE, value |-> r.out]]

\* the submit handler of app_form for a non-empty name: [w, cache, data]
app_form(w, c, dt, d, name, new_cnt, exist_cnt, f) ==
    IF new_cnt + exist_cnt = 0
    THEN [w |-> w, cache |-> c, data |-> dt]
    ELSE LET w1 == InsertIfPositive(w, d, name, "new", new_cnt, f)
             w2 == InsertIfPositive(w1, d, name, "exist", exist_cnt, f)
             r == load_all_records_cached(w2, NoCache, f)
         IN  [w |-> r.w, cache |-> r.cache, data |-> [set |-> TRUE, value |-> r.out]]

\* the failure patterns of a reload: nothing raises, the read of the sheet
\* raises, every remote call raises
ReloadPatterns == {{}, {"get_all_values"}, AllSites}

\* init_session(): if "data" not in st.session_state
InitSession ==
    /\ Initialised /\ ~data.set
    /\ \E f \in ReloadPatterns :
        \E r \in {load_all_records_cached(World, cache, f)} :
            /\ InstallWorld(r.w)
            /\ cache' = r.cache
            /\ data' = [set |-> TRUE, value |-> r.out]
            /\ last' = [NoCall EXCEPT !.op = "init_session"]
            /\ UNCHANGED <<calls, twin, inflight, records>>

\* the number of inserts a submission makes
NumInserts(new_cnt, exist_cnt) ==
    (IF new_cnt > 0 THEN 1 ELSE 0) + (IF exist_cnt > 0 THEN 1 ELSE 0)

AppForm ==
    /\ data.set
    /\ \E d \in FormDates, name \in FormNames, new_cnt \in FormCounts, exist_cnt \in FormCounts,
          f \in Patterns(WriteSites) :
        /\ calls.insert + NumInserts(new_cnt, exist_cnt) <= MaxCalls
        /\ \E r \in {app_form(World, cache, data, d, name, new_cnt, exist_cnt, f)} :
            /\ InstallWorld(r.w)
            /\ cache' = r.cache
            /\ data' = r.data
            /\ last' = [NoCall EXCEPT !.op = "app_form", !.ymd = d,
                                      !.rkey = <<FormatDate(d[1], d[2], d[3]), name, "">>,
                                      !.count = new_cnt + exist_cnt,
                                      !.clean = (f = {})]
            /\ calls' = [calls EXCEPT !.insert = @ + NumInserts(new_cnt, exist_cnt)]
            /\ UNCHANGED <<twin, inflight, records>>

\* render_refresh_button: clear the cache, load again
RefreshButton ==
    /\ data.set
    /\ \E f \in ReloadPatterns :
        \E r \in {load_all_records_cached(World, NoCache, f)} :
            /\ InstallWorld(r.w)
            /\ cache' = r.cache
            /\ data' = [set |-> TRUE, value |-> r.out]
            /\ last' = [NoCall EXCEPT !.op = "refresh"]
            /\ UNCHANGED <<calls, twin, inflight, records>>

\* ttl=60: the cached result has expired
CacheExpires ==
    /\ cache.valid
    /\ cache' = NoCache
    /\ last' = [NoCall EXCEPT !.op = "ttl"]
    /\ UNCHANGED <<_client, _book, _backend_available, secrets, records_ws, targets_ws,
                   _local_records, _local_targets, calls, twin, data, inflight,
                   records>>

NextForm ==
    \/ (~Initialised /\ InitDb)
    \/ InitSession
    \/ AppForm
    \/ RefreshButton
    \/ CacheExpires

InitForm == InitWith(EmptyWorkbooks) /\ twin = World

SpecForm == InitForm /\ [][NextForm]_vars

-----------------------------------------------------------------------------
(* Two browser sessions on one healthy backend.  insert_or_update_record is  *)
(* a sequence of remote calls - get_all_values, then update_cell for the     *)
(* count and update_cell for the week, or append_row - and the calls of one  *)
(* session interleave with those of the other.  A session may also delete a  *)
(* record from the data management page.                                     *)

\* the records worksheet after earlier submissions: three records
SharedWorkbook ==
    [rec |-> [exists |-> TRUE,
              rows |-> <<RECORDS_HEADER,
                         <<"2025-01-10", "2", "Aki", "new", "1">>,
                         <<"2025-01-10", "2", "Bo", "new", "2">>,
                         <<"2025-01-10", "2", "Bo", "exist", "1">>>>],
     tgt |-> [exists |-> TRUE, rows |-> <<TARGETS_HEADER>>]]

\* the state a healthy init_db leaves on that workbook
InitShared ==
    /\ InitWith({SharedWorkbook})
    /\ secrets
    /\ twin = [World EXCEPT !.client = TRUE, !.book = TRUE, !.avail = TRUE]

\* _init_once on the healthy backend
SharedInitDb ==
    /\ ~Initialised
    /\ \E r \in {init_db(World, {})} :
        /\ Install(r.w)
        /\ last' = [NoCall EXCEPT !.op = "init_db"]
        /\ UNCHANGED <<calls, twin>>

\* lines 291-321 in session s: the connector, the provisioner, the read of
\* the sheet and the scan for the key
SessionScan(s) ==
    /\ Initialised /\ _backend_available
    /\ inflight[s].pc = "idle"
    /\ \E k \in RecordKeys, c \in Counts :
        LET cb == _client_and_book(World, {})
            ens == _ensure_worksheet(cb.ok, cb.w.rec, RECORDS_HEADER, {})
        IN  /\ ens.ok
            /\ InstallWorld([cb.w EXCEPT !.rec = ens.ws])
            /\ inflight' = [inflight EXCEPT ![s] =
                    [pc |-> "scanned", op |-> "insert", key |-> k, count |-> c,
                     scan |-> InsertScan(ens.ws.rows, k[1], k[2], k[3], c)]]
            /\ last' = [NoCall EXCEPT !.op = "scan", !.rkey = k, !.count = c]
            /\ UNCHANGED <<calls, twin, cache, data, records>>

\* lines 323-324 in session s
SessionWriteCount(s) ==
    /\ inflight[s].pc = "scanned" /\ inflight[s].scan.target_row_index > 0
    /\ records_ws' = InsertWriteCount(records_ws, inflight[s].scan)
    /\ inflight' = [inflight EXCEPT ![s].pc = "counted"]
    /\ last' = [NoCall EXCEPT !.op = "update_cell", !.rkey = inflight[s].key,
                              !.count = inflight[s].count]
    /\ UNCHANGED <<_client, _book, _backend_available, secrets, targets_ws,
                   _local_records, _local_targets, calls, twin, cache, data,
                   records>>

\* lines 327-329 in session s
SessionWriteWeek(s) ==
    /\ inflight[s].pc = "counted"
    /\ records_ws' = InsertWriteWeek(records_ws, inflight[s].scan,
                                     _iso_week_of(inflight[s].key[1]))
    /\ inflight' = [inflight EXCEPT ![s].pc = "done"]
    /\ last' = [NoCall EXCEPT !.op = "update_week", !.rkey = inflight[s].key,
                              !.count = inflight[s].count]
    /\ UNCHANGED <<_client, _book, _backend_available, secrets, targets_ws,
                   _local_records, _local_targets, calls, twin, cache, data,
                   records>>

\* lines 333-355 in session s
SessionAppend(s) ==
    /\ inflight[s].pc = "scanned" /\ inflight[s].scan.target_row_index = 0
    /\ records_ws' = InsertAppend(records_ws, inflight[s].scan, inflight[s].key[1],
                                  _iso_week_of(inflight[s].key[1]), inflight[s].key[2],
                                  inflight[s].key[3], inflight[s].count)
    /\ inflight' = [inflight EXCEPT ![s].pc = "done"]
    /\ last' = [NoCall EXCEPT !.op = "append_row", !.rkey = inflight[s].key,
                              !.count = inflight[s].count]
    /\ UNCHANGED <<_client, _book, _backend_available, secrets, targets_ws,
                   _local_records, _local_targets, calls, twin, cache, data,
                   records>>

\* data_management.py line 86 in session s: delete_record on the healthy
\* backend
SessionDelete(s) ==
    /\ Initialised /\ _backend_available
    /\ inflight[s].pc = "idle"
    /\ \E k \in RecordKeys :
        \E r \in {delete_record(World, k[1], k[2], k[3], {})} :
            /\ r.ret
            /\ InstallWorld(r.w)
            /\ inflight' = [inflight EXCEPT ![s] =
                    [Idle EXCEPT !.pc = "done", !.op = "delete", !.key = k]]
            /\ last' = [NoCall EXCEPT !.op = "delete_record", !.rkey = k]
            /\ UNCHANGED <<calls, twin, cache, data, records>>

NextShared ==
    \/ SharedInitDb
    \/ \E s \in Sessions : SessionScan(s)
    \/ \E s \in Sessions : SessionWriteCount(s)
    \/ \E s \in Sessions : SessionWriteWeek(s)
    \/ \E s \in Sessions : SessionAppend(s)
    \/ \E s \in Sessions : SessionDelete(s)

SpecShared == InitShared /\ [][NextShared]_vars

-----------------------------------------------------------------------------
(* A caller that keeps what load_all_records returned while the session goes *)
(* on writing.  In fallback mode the function returns list(local records): a *)
(* new list of the very dicts the local store holds; from the sheet it       *)
(* returns dicts built for the call.                                         *)

\* records = load_all_records() (data_management.py line 9): value is the
\* list as it was returned, shared says its elements are the dicts of
\* st.session_state["_local_records"]
KeepRecords ==
    /\ Initialised
    /\ \E f \in {{}, {"get_all_values"}, AllSites} :
        \E r \in {load_all_records(World, f)} :
            /\ InstallWorld(r.w)
            /\ records' = [kept |-> TRUE, shared |-> (r.svc = "local"), value |-> r.out]
            /\ last' = [NoCall EXCEPT !.op = "load_all_records", !.raised = r.raised,
                                      !.svc = r.svc]
            /\ UNCHANGED <<calls, twin, cache, data, inflight>>

\* what the caller reads in the list it keeps: the dicts it shares with the
\* local store as that store holds them now (the store only appends and
\* updates in place, so the i-th element is the store's i-th dict), its own
\* dicts as they were returned
RecordsNow ==
    IF records.shared
    THEN [i \in DOMAIN records.value |-> _local_records[i]]
    ELSE records.value

\* insert_or_update_record while the caller keeps its list
KeptInsert ==
    /\ Initialised
    /\ calls.insert < MaxCalls
    /\ \E k \in RecordKeys, c \in Counts, f \in {{}, {"get_all_values"}, AllSites} :
        \E r \in {insert_or_update_record(World, k[1], k[2], k[3], c, f)} :
            /\ Install(r.w)
            /\ last' = [NoCall EXCEPT !.op = "insert_or_update_record", !.rkey = k,
                                      !.count = c, !.raised = r.raised, !.svc = r.svc,
                                      !.clean = (f = {}),
                                      !.fresh = NoRowFor(World, k)]
            /\ calls' = [calls EXCEPT !.insert = @ + 1]
            /\ UNCHANGED twin

NextKept == (~Initialised /\ InitDb) \/ KeepRecords \/ KeptInsert

SpecKept == InitForm /\ [][NextKept]_vars

-----------------------------------------------------------------------------
(* The record repository called with names as they were typed: the name is   *)
(* free text, and insert_or_update_record takes the string it is given.      *)

\* one (date, type) under a name and under the same name typed with a
\* leading blank
TypedKeys == { <<"2025-01-10", "Aki", "new">>, <<"2025-01-10", " Aki", "new">> }

\* a provisioned workbook without records
InitTyped ==
    /\ InitWith({[rec |-> [exists |-> TRUE, rows |-> <<RECORDS_HEADER>>],
                  tgt |-> [exists |-> TRUE, rows |-> <<TARGETS_HEADER>>]]})
    /\ twin = World

\* insert_or_update_record(date_str, name, typ, count) with a typed name
TypedInsert ==
    /\ Initialised
    /\ calls.insert < MaxCalls
    /\ \E k \in TypedKeys, c \in Counts, f \in Patterns(RecordSites) :
        \E r \in {insert_or_update_record(World, k[1], k[2], k[3], c, f)} :
            /\ Install(r.w)
            /\ last' = [NoCall EXCEPT !.op = "insert_or_update_record", !.rkey = k,
                                      !.count = c, !.raised = r.raised, !.svc = r.svc,
                                      !.clean = (f = {}),
                                      !.fresh = (calls.insert = 0)]
            /\ calls' = [calls EXCEPT !.insert = @ + 1]
            /\ UNCHANGED twin

NextTyped == (~Initialised /\ InitDb) \/ TypedInsert

SpecTyped == InitTyped /\ [][NextTyped]_vars

-----------------------------------------------------------------------------
(* The record repository on a records worksheet whose rows were typed or     *)
(* edited in the spreadsheet: a week cell that is not the week of the row's  *)
(* date, an empty week cell, a week cell that is no number, a date cell      *)
(* that is no date, a column added to the right of the canonical ones.       *)

EditedWorkbooks ==
    { [rec |-> [exists |-> TRUE,
                rows |-> <<RECORDS_HEADER, <<"2024-12-30", "53", "Bo", "new", "1">>>>],
       tgt |-> [exists |-> TRUE, rows |-> <<TARGETS_HEADER>>]],
      [rec |-> [exists |-> TRUE,
                rows |-> <<RECORDS_HEADER,
                           <<"2024-12-30", "", "Bo", "new", "1">>,
                           <<"2025-01-10", "Bo", "Aki", "exist", "2">>>>],
       tgt |-> [exists |-> TRUE, rows |-> <<TARGETS_HEADER>>]],
      [rec |-> [exists |-> TRUE,
                rows |-> <<RECORDS_HEADER, <<"Bo", "", "Bo", "new", "1">>>>],
       tgt |-> [exists |-> TRUE, rows |-> <<TARGETS_HEADER>>]],
      [rec |-> [exists |-> TRUE,
                rows |-> <<<<"date", "week", "name", "type", "count", "memo">>>>],
       tgt |-> [exists |-> TRUE, rows |-> <<<<"month", "category", "target", "memo">>>>]] }

InitEdited == InitWith(EditedWorkbooks) /\ twin = World

SpecEdited == InitEdited /\ [][NextRecords]_vars

-----------------------------------------------------------------------------
(* The week of a date: the forms hand a date to ymd(), whose string          *)
(* insert_or_update_record passes to _iso_week_of.                           *)

\* a session that has not touched the backend, on a workbook still without
\* worksheets
InitWeek == InitWith({[rec |-> NoWorksheet, tgt |-> NoWorksheet]}) /\ secrets /\ twin = World

\* _iso_week_of is pure: one computation per behaviour covers every date
IsoWeekOf ==
    \E d \in Calendar :
        \E date_str \in {FormatDate(d[1], d[2], d[3])} :
            /\ last.op = "none"
            /\ last' = [NoCall EXCEPT !.op = "_iso_week_of", !.ymd = d,
                                      !.rkey = <<date_str, "", "">>,
                                      !.count = _iso_week_of(date_str)]
            /\ UNCHANGED <<_client, _book, _backend_available, secrets, records_ws,
                           targets_ws, _local_records, _local_targets, calls, twin,
                           cache, data, inflight, records>>

NextWeek == IsoWeekOf

SpecWeek == InitWeek /\ [][NextWeek]_vars

-----------------------------------------------------------------------------
(* Two runs of one sequence of calls: the session's own, in which every      *)
(* remote call of an insert or a load raises, and the reference run in twin, *)
(* against a backend that never fails.  Both start on the same workbook,     *)
(* which holds no data row.                                                  *)

InitTwin == InitWith(EmptyWorkbooks) /\ twin = [World EXCEPT !.secrets = TRUE]

\* init_db in both runs; the session's backend is down already or still up
TwinInitDb ==
    /\ calls.insert = 0
    /\ \E f \in {{}, AllSites} :
        \E r \in {init_db(World, f)}, t \in {init_db(twin, {})} :
            /\ Install(r.w)
            /\ twin' = t.w
            /\ last' = [NoCall EXCEPT !.op = "init_db", !.raised = r.raised,
                                      !.clean = (f = {})]
            /\ UNCHANGED calls

TwinInsertOrUpdateRecord ==
    /\ twin.avail /\ calls.insert < MaxCalls
    /\ \E k \in RecordKeys, c \in Counts :
        \E r \in {insert_or_update_record(World, k[1], k[2], k[3], c, AllSites)},
           t \in {insert_or_update_record(twin, k[1], k[2], k[3], c, {})} :
            /\ Install(r.w)
            /\ twin' = t.w
            /\ last' = [NoCall EXCEPT !.op = "insert_or_update_record", !.rkey = k,
                                      !.count = c, !.raised = r.raised, !.svc = r.svc,
                                      !.clean = FALSE, !.fresh = NoRowFor(World, k)]
            /\ calls' = [calls EXCEPT !.insert = @ + 1]

TwinLoadAllRecords ==
    /\ twin.avail
    /\ \E r \in {load_all_records(World, AllSites)}, t \in {load_all_records(twin, {})} :
        /\ Install(r.w)
        /\ twin' = t.w
        /\ last' = [NoCall EXCEPT !.op = "load_all_records", !.raised = r.raised,
                                  !.svc = r.svc, !.clean = FALSE]
        /\ UNCHANGED calls

NextTwin ==
    \/ TwinInitDb
    \/ TwinInsertOrUpdateRecord
    \/ TwinLoadAllRecords

SpecTwin == InitTwin /\ [][NextTwin]_vars

-----------------------------------------------------------------------------
(* Additive upsert *)

\* the step is a call of insert_or_update_record with the key of the call
\* before it, which found no row for the key in either store, and one store
\* serviced both calls: the backend with no remote call raising, or the local
\* fallback
C1_SecondInsertSameStore ==
    /\ last.op = "insert_or_update_record"
    /\ last.fresh
    /\ calls'.insert = calls.insert + 1
    /\ last'.rkey = last.rkey
    /\ \/ last.svc = "backend" /\ last.clean /\ last'.svc = "backend" /\ last'.clean
       \/ last.svc = "local" /\ last'.svc = "local"

-----------------------------------------------------------------------------
(* Key discrimination *)

\* the key and the count of every record of a sequence whose key is not k
OtherCounts(recs, k) ==
    LET others == SelectSeq(recs, LAMBDA p : KeyOf(p) # k)
    IN  [i \in DOMAIN others |-> <<KeyOf(others[i]), others[i].count>>]

\* C2: a call of insert_or_update_record with the key k creates or changes
\* only the row of k: the rows of every other key, in the sheet and in the
\* local list, are the same rows with the same counts after the call.
C2_KeyDiscrimination ==
    [][ calls'.insert = calls.insert + 1 =>
          /\ OtherCounts(CompleteRows(records_ws'.rows), last'.rkey)
                = OtherCounts(CompleteRows(records_ws.rows), last'.rkey)
          /\ OtherCounts(_local_records', last'.rkey)
                = OtherCounts(_local_records, last'.rkey) ]_vars

-----------------------------------------------------------------------------
(* Target replace semantics *)

-----------------------------------------------------------------------------
(* Writes are never silently lost *)

\* some record of the sequence carries the key k with a count of at least c
Recorded(recs, k, c) ==
    \E i \in DOMAIN recs : KeyOf(recs[i]) = k /\ recs[i].count >= c

\* C4: when insert_or_update_record(d, n, t, c) has returned, whatever
\* remote calls raised, the sheet or the local list holds a row for (d, n, t)
\* whose count includes c.
C4_WriteNeverLost ==
    last.op = "insert_or_update_record" =>
        \/ Recorded(CompleteRows(records_ws.rows), last.rkey, last.count)
        \/ Recorded(_local_records, last.rkey, last.count)

-----------------------------------------------------------------------------
(* The repository layer is the error boundary *)

\* C5: none of init_db, init_target_table, load_all_records,
\* insert_or_update_record, get_target and set_target raises to its caller,
\* whatever remote calls raise and whether or not credentials are
\* configured; a write is serviced by the backend or by the local store.
C5_NoOperationRaises ==
    /\ ~last.raised
    /\ last.op \in {"insert_or_update_record", "set_target"} =>
          last.svc \in {"backend", "local", "both"}

\* an insert during which a remote call raised has returned, serviced by
\* the local fallback, which holds its record
C5_Witness ==
    /\ last.op = "insert_or_update_record"
    /\ _backend_available /\ ~last.clean
    /\ last.svc = "local" /\ ~last.raised
    /\ Recorded(_local_records, last.rkey, last.count)

-----------------------------------------------------------------------------
(* Fallback transparency *)

-----------------------------------------------------------------------------
(* A load after an insert *)

\* C7: the load_all_records that follows insert_or_update_record(d, n, t, c)
\* returns a record for (d, n, t) whose count includes c, whatever remote
\* calls raised during the insert and whatever remote calls raise during
\* the load.
C7_LoadAfterInsert ==
    last.op = "insert_or_update_record" =>
        \A f \in Patterns(ReadSites) :
            Recorded(load_all_records(World, f).out, last.rkey, last.count)

-----------------------------------------------------------------------------
(* Last write wins for targets *)

\* C8: after set_target(m, c, v) has returned, whatever remote calls raised
\* during it, the get_target(m, c) that follows returns v, whatever remote
\* calls raise during the read.
C8_LastWriteWins ==
    last.op = "set_target" =>
        \A f \in Patterns(ReadSites) :
            get_target(World, last.tkey[1], last.tkey[2], f).ret = last.target

-----------------------------------------------------------------------------
(* get_target is a read *)

\* C9: get_target(month, category) returns 0 when set_target was never
\* called with the key, and it changes neither the targets the sheet holds
\* nor the local mapping of targets, whatever remote calls raise during it.
C9_GetTargetReadOnly ==
    \A k \in TargetKeys, f \in Patterns(ReadSites) :
        LET r == get_target(World, k[1], k[2], f)
        IN  /\ k \notin calls.set_keys => r.ret = 0
            /\ StoredTargets(r.w.tgt.rows) = StoredTargets(targets_ws.rows)
            /\ r.w.ltgt = _local_targets

-----------------------------------------------------------------------------
(* Incomplete-row filtering *)

\* C10: load_all_records returns exactly the stored rows whose date, name
\* and type are all non-empty, in their order: the complete rows of the
\* sheet it has read when the backend services the read, the complete
\* entries of the local list when the fallback does; no returned record has
\* an empty date, name or type.
C10_IncompleteRowFiltering ==
    \A f \in Patterns(ReadSites) :
        LET r == load_all_records(World, f)
        IN  /\ \A i \in DOMAIN r.out : RecordComplete(r.out[i])
            /\ r.svc = "backend" => r.out = CompleteRows(r.w.rec.rows)
            /\ r.svc = "local" => r.out = SelectSeq(r.w.lrec, RecordComplete)

-----------------------------------------------------------------------------
(* Delete precision *)

\* a sequence of records without its first record of the key k
WithoutFirst(recs, k) ==
    LET hits == {i \in DOMAIN recs : KeyOf(recs[i]) = k}
    IN  IF hits = {} THEN recs
        ELSE SubSeq(recs, 1, Min(hits) - 1) \o SubSeq(recs, Min(hits) + 1, Len(recs))

\* C11: delete_record(date, name, type) removes exactly one row of the store
\* that services it, a row with that key, leaves every other row of that
\* store and the other store as they were and returns true; when the store
\* holds no row with the key it returns false and changes nothing.
C11_DeletePrecision ==
    \A k \in RecordKeys, f \in Patterns(EnsureSites \cup DeleteSites) :
        LET r == delete_record(World, k[1], k[2], k[3], f)
            sheet == CompleteRows(records_ws.rows)
        IN  IF r.svc = "backend"
            THEN /\ r.ret = (WithKey(sheet, k) # <<>>)
                 /\ CompleteRows(r.w.rec.rows) = WithoutFirst(sheet, k)
                 /\ r.w.lrec = _local_records
            ELSE /\ r.ret = (WithKey(_local_records, k) # <<>>)
                 /\ r.w.lrec = WithoutFirst(_local_records, k)
                 /\ CompleteRows(r.w.rec.rows) = sheet

-----------------------------------------------------------------------------
(* Uniqueness of the record key *)

\* no two records of the sequence carry the same (date, name, type)
UniqueKeys(recs) ==
    \A i, j \in DOMAIN recs : KeyOf(recs[i]) = KeyOf(recs[j]) => i = j

YearLen(y) == IF IsLeap(y) THEN 366 ELSE 365

\* days from 2018-01-01 to the first of January of y
RECURSIVE DaysSinceMondayYear(_)
DaysSinceMondayYear(y) ==
    IF y <= 2018 THEN 0 ELSE YearLen(y - 1) + DaysSinceMondayYear(y - 1)

RECURSIVE DayOfYear(_, _, _)
DayOfYear(y, m, d) ==
    IF m = 1 THEN d ELSE DaysInMonth(y, m - 1) + DayOfYear(y, m - 1, d)

\* 0 is Monday, 6 is Sunday
Weekday(y, m, d) == (DaysSinceMondayYear(y) + DayOfYear(y, m, d) - 1) % 7

Iso8601Week(y, m, d) ==
    LET thursday == DayOfYear(y, m, d) - Weekday(y, m, d) + 3
        inYear == IF thursday < 1 THEN thursday + YearLen(y - 1)
                  ELSE IF thursday > YearLen(y) THEN thursday - YearLen(y)
                  ELSE thursday
    IN  ((inYear - 1) \div 7) + 1

\* C13: for every calendar date, _iso_week_of of its YYYY-MM-DD string is the
\* ISO-8601 week number of the date (Monday-start weeks, week 1 holds the
\* year's first Thursday); 2024-12-30 gives week 1.
C13_IsoWeekCorrectness ==
    last.op = "_iso_week_of" =>
        /\ last.count = Iso8601Week(last.ymd[1], last.ymd[2], last.ymd[3])
        /\ last.count \in 1..53
        /\ (last.rkey[1] = "2024-12-30" => last.count = 1)

\* the week of 2024-12-30 has been computed, and from the string, not the date
C13_Witness ==
    /\ last.op = "_iso_week_of"
    /\ last.ymd = <<2024, 12, 30>>
    /\ last.rkey[1] = "2024-12-30"
    /\ last.count = 1


\* the week ISO 8601 gives the date a string denotes; 0, which is no week,
\* when the string denotes no date
WeekOfDateString(date_str) ==
    LET p == ParseDate(date_str)
    IN  IF p = <<>> THEN 0 ELSE Iso8601Week(p[1], p[2], p[3])

\* C14: every record load_all_records returns has a week that is the ISO-8601
\* week number of the record's own date and lies in 1..53, whatever the
\* stored week cell and the stored date string are.
C14_WeekNeverTrusted ==
    \A f \in Patterns(ReadSites) :
        LET r == load_all_records(World, f)
        IN  \A i \in DOMAIN r.out :
                /\ r.out[i].week \in 1..53
                /\ r.out[i].week = WeekOfDateString(r.out[i].date)

-----------------------------------------------------------------------------
(* Provisioner *)

\* C15: whenever _ensure_worksheet, called with the open workbook, returns a
\* worksheet (not None), the first row of that worksheet is the canonical
\* header, in content and in length.
C15_ProvisionerPostcondition ==
    \A f \in Patterns(EnsureSites) :
        LET rec == _ensure_worksheet(_book, records_ws, RECORDS_HEADER, f)
            tgt == _ensure_worksheet(_book, targets_ws, TARGETS_HEADER, f)
        IN  /\ rec.ok => StripRow(RowValues1(rec.ws)) = RECORDS_HEADER
            /\ tgt.ok => StripRow(RowValues1(tgt.ws)) = TARGETS_HEADER

\* two calls of _ensure_worksheet in a row, on a worksheet whose first row is
\* the canonical header, under the failure patterns f1 and f2: the second
\* call issues no write and leaves the worksheet as the first call left it
RepairIsIdempotent(ws, header, f1, f2) ==
    LET first == _ensure_worksheet(_book, ws, header, f1)
        second == _ensure_worksheet(_book, first.ws, header, f2)
    IN  (_book /\ RowValues1(ws) = header) =>
            /\ second.writes = {}
            /\ second.ws = first.ws

\* under the failure pattern f, _ensure_worksheet obtains the worksheet
\* (sh.worksheet succeeds, at the latest when it is tried again) and
\* ws.row_values(1) does not raise
ReadsSucceed(f) ==
    /\ "row_values" \notin f
    /\ ~({"worksheet", "worksheet_retry"} \subseteq f)

-----------------------------------------------------------------------------
(* Retry of transient errors *)

\* C17: a remote call that fails with a transient error is retried (at most
\* 3 times by default) and the operation is serviced by the backend when a
\* retry succeeds; the local store services it only after the retries are
\* exhausted.  A failure pattern {site} is one failure of one remote call of
\* the operation, which the first retry would overcome: with the workbook
\* open, an operation under such a pattern is serviced by the backend.
C17_BoundedRetry ==
    (_backend_available /\ _client /\ _book) =>
        \A site \in RecordSites :
            /\ load_all_records(World, {site}).svc = "backend"
            /\ \A k \in RecordKeys, c \in Counts :
                    insert_or_update_record(World, k[1], k[2], k[3], c, {site}).svc
                        = "backend"

-----------------------------------------------------------------------------
(* Connector *)

\* C18: _client_and_book returns (None, None) or two handles; once it has
\* returned two handles (both are cached), every later call returns the
\* cached pair without authorizing again - also when gspread.authorize or
\* open_by_url would raise - and no step replaces or clears the handles.
C18_ConnectorSingleton ==
    [][ /\ \A f \in Patterns(ConnectSites) :
            LET r == _client_and_book(World, f)
            IN  r.ok => (r.w.client /\ r.w.book)
        /\ (_client /\ _book) =>
            /\ \A f \in Patterns(ConnectSites) :
                    _client_and_book(World, f) = [w |-> World, ok |-> TRUE]
            /\ _client' /\ _book' ]_vars

\* an operation after the one that connected has run with the cached handles
C18_Witness ==
    /\ _client /\ _book
    /\ last.op = "set_target"
    /\ last.svc = "backend"
    /\ calls.set_target > 1

-----------------------------------------------------------------------------
(* Local mode *)

\* C19: when no service-account credentials or no workbook URL are
\* configured, init_db leaves the store in local mode, and every
\* load_all_records, insert_or_update_record, get_target and set_target is
\* serviced by the local fallback store, changes nothing but the local
\* store, and does not raise.
C19_MissingConfigurationFallback ==
    ~secrets =>
        /\ ~_backend_available
        /\ ~_client /\ ~_book
        /\ (last.op \in {"insert_or_update_record", "set_target"} =>
                last.svc = "local" /\ ~last.raised)
        /\ \A f \in Patterns(AllSites) :
            /\ ~init_db(World, f).w.avail
            /\ load_all_records(World, f) =
                    [w |-> World, out |-> _local_records, raised |-> FALSE, svc |-> "local"]
            /\ \A k \in TargetKeys :
                    get_target(World, k[1], k[2], f) =
                        [w |-> World, ret |-> LocalTarget(_local_targets, k),
                         raised |-> FALSE, svc |-> "local"]

\* without configuration, a second target has been written and is in the
\* local store
C19_Witness ==
    /\ ~secrets
    /\ last.op = "set_target"
    /\ last.svc = "local"
    /\ calls.set_target > 1
    /\ LocalTarget(_local_targets, last.tkey) = last.target

\* C20: once init_db has selected local mode (_backend_available is False
\* in an initialised session), no later operation, a repeated init_db
\* included, switches the store to the backend, and the records and targets
\* written locally stay visible to load_all_records and get_target.
C20_FallbackLastsForSession ==
    [][ (Initialised /\ ~_backend_available) =>
            /\ ~_backend_available'
            /\ load_all_records(World, {}).out = _local_records
            /\ \A k \in TargetKeys :
                    get_target(World, k[1], k[2], {}).ret = LocalTarget(_local_targets, k) ]_vars

-----------------------------------------------------------------------------
(* Initialisation twice *)

\* the remote methods behind the call sites of initialisation
MethodSites ==
    { {"authorize"}, {"open_by_url"}, {"worksheet", "worksheet_retry"},
      {"add_worksheet", "add_worksheet_retry"}, {"row_values"},
      {"update_new", "update_range", "update_a1"} }

\* backend conditions: each remote method either works or raises, wherever
\* it is called
Conditions ==
    { f \in SUBSET InitSites : \A m \in MethodSites : m \subseteq f \/ m \cap f = {} }

\* _init_once: init_db(), then init_target_table()
InitOnce(w, f) == init_target_table(init_db(w, f).w, f).w

\* C21: under the same backend conditions, a second init_db (and a second
\* init_db with init_target_table) leaves the state the first one left, and
\* neither changes the records and targets held in the local fallback store.
C21_InitIdempotent ==
    \A f \in Conditions :
        LET db == init_db(World, f).w
            once == init_target_table(db, f).w
        IN  /\ init_db(db, f).w = db
            /\ InitOnce(once, f) = once
            /\ db.lrec = _local_records /\ db.ltgt = _local_targets
            /\ once.lrec = _local_records /\ once.ltgt = _local_targets

\* init_db has run again in a session whose local store holds a record
C21_Witness ==
    /\ last.op = "init_db"
    /\ calls.insert > 0
    /\ Len(_local_records) > 0
    /\ init_db(World, {}).w.lrec = _local_records

-----------------------------------------------------------------------------
(* Counts *)

\* every record of a sequence has a count >= 0
NonNegative(recs) == \A i \in DOMAIN recs : recs[i].count >= 0

\* C22: after any sequence of entry-form submissions every record of the
\* backend table and of the local fallback store has count >= 0, and a
\* submission whose counts are all zero writes nothing.
C22_CountNonNegative ==
    /\ NonNegative(StoredRows(records_ws.rows))
    /\ NonNegative(_local_records)
    /\ NonNegative(data.value)
    /\ \A d \in FormDates, name \in FormNames, f \in Patterns(WriteSites) :
            app_form(World, cache, data, d, name, 0, 0, f) =
                [w |-> World, cache |-> cache, data |-> data]

\* two submissions have added to the count of one record
C22_Witness ==
    /\ last.op = "app_form"
    /\ calls.insert > 1
    /\ \E i \in DOMAIN data.value : data.value[i].count > 2

-----------------------------------------------------------------------------
(* Sessions that interleave *)

\* the (date, name, type) the row with the 1-based number i holds on the
\* sheet, read through the canonical header; no key when the sheet has no
\* such row
KeyAtRow(rows, i) ==
    IF i > Len(rows) THEN <<"", "", "">>
    ELSE KeyOf(ParseRecord(rows[i], RECORDS_HEADER))

\* C23: when another client inserts or deletes a row between the scan of
\* insert_or_update_record and its cell write, the count is never written
\* to a row whose (date, name, type) differs from the requested key.
C23_ReverifyBeforeWrite ==
    [][ \A s \in Sessions :
            (inflight[s].pc = "scanned" /\ inflight'[s].pc = "counted") =>
                KeyAtRow(records_ws.rows, inflight[s].scan.target_row_index)
                    = inflight[s].key ]_vars

-----------------------------------------------------------------------------
(* One store per insert *)

\* the sum of the counts the rows of the sheet carry under the key k
BackendTotal(ws, k) == SumCounts(WithKey(StoredRows(ws.rows), k))

\* the sum of the counts the local records carry under the key k
LocalTotal(recs, k) == SumCounts(WithKey(recs, k))

\* C24: for every insert_or_update_record(d, n, t, c) and every pattern of
\* backend failures, the contribution c is never added both to the backend
\* row and to the local fallback record of the key (d, n, t).
C24_AtMostOneStore ==
    [][ calls'.insert = calls.insert + 1 =>
          ~ /\ BackendTotal(records_ws', last'.rkey)
                  = BackendTotal(records_ws, last'.rkey) + last'.count
            /\ LocalTotal(_local_records', last'.rkey)
                  = LocalTotal(_local_records, last'.rkey) + last'.count ]_vars

-----------------------------------------------------------------------------
(* Keys are the strings that were given *)

\* the sum of the count cells of the rows of the sheet whose date, name and
\* type cells hold exactly the strings of the key k
TypedBackendTotal(values, k) ==
    LET hits == SelectSeq(Tail(values), LAMBDA r :
                    Len(r) >= 5 /\ r[1] = k[1] /\ r[3] = k[2] /\ r[4] = k[3])
    IN  SumCounts([i \in DOMAIN hits |-> [count |-> IntOr0(hits[i][5])]])

\* the sum of the counts of the local records written under exactly the
\* strings of the key k
TypedLocalTotal(recs, k) ==
    SumCounts(SelectSeq(recs, LAMBDA p :
                  p.date = k[1] /\ p.name = k[2] /\ p.type = k[3]))

\* C25: keys are compared as given, in the backend as in the local store:
\* after two calls of insert_or_update_record serviced by one store (the
\* healthy backend, or the local fallback), for every name, a name with a
\* leading blank included, the rows written under exactly that (date, name,
\* type) carry the counts of the calls made with it - a second call with the
\* same strings merges into the row of the first, and a call never merges
\* into a row written under a different string.
C25_KeysComparedAsGiven ==
    [][ ( /\ calls.insert = 1 /\ calls'.insert = 2
          /\ \/ last.svc = "backend" /\ last.clean /\ last'.svc = "backend" /\ last'.clean
             \/ last.svc = "local" /\ last'.svc = "local" ) =>
          \A k \in TypedKeys :
              LET given == (IF last.rkey = k THEN last.count ELSE 0)
                             + (IF last'.rkey = k THEN last'.count ELSE 0)
              IN  IF last'.svc = "backend"
                  THEN TypedBackendTotal(records_ws'.rows, k) = given
                  ELSE TypedLocalTotal(_local_records', k) = given ]_vars

-----------------------------------------------------------------------------
(* Self-healing the header *)

\* C26: for every state of the records worksheet (header missing, reordered,
\* or row 1 occupied by a record appended while the sheet had no header), the
\* records the rows denote are the same before and after _ensure_worksheet
\* has rewritten row 1: no record is overwritten and no stored cell changes
\* the field it belongs to.
C26_HeaderRepairPreservesData ==
    records_ws.exists =>
        LET ens == _ensure_worksheet(TRUE, records_ws, RECORDS_HEADER, {})
        IN  StoredRows(ens.ws.rows) = StoredRows(records_ws.rows)

-----------------------------------------------------------------------------
(* The frame of set_target *)

\* the stored targets of every key but k, in their order
OtherTargets(values, k) ==
    SelectSeq(StoredTargets(values), LAMBDA t : <<t.month, t.category>> # k)

\* the local targets of every key but k
OtherLocalTargets(ltgt, k) ==
    [j \in (DOMAIN ltgt) \ {k} |-> ltgt[j]]

\* C27: set_target(m, c, v) changes only the target of the key (m, c): the
\* stored targets of every other (month, category), in the sheet and in the
\* local mapping, and all records are the same after the call; a key that
\* had a row keeps its number of rows, and at most one row is added for a
\* key that had none.
C27_SetTargetFrame ==
    [][ calls'.set_target = calls.set_target + 1 =>
          LET k == last'.tkey
              before == Len(TargetsOf(targets_ws.rows, k))
              after == Len(TargetsOf(targets_ws'.rows, k))
          IN  /\ OtherTargets(targets_ws'.rows, k) = OtherTargets(targets_ws.rows, k)
              /\ OtherLocalTargets(_local_targets', k) = OtherLocalTargets(_local_targets, k)
              /\ StoredRows(records_ws'.rows) = StoredRows(records_ws.rows)
              /\ _local_records' = _local_records
              /\ IF before > 0 THEN after = before ELSE after <= 1 ]_vars

-----------------------------------------------------------------------------
(* Two clients, one key *)

\* C28: when two clients have each run insert_or_update_record on one key,
\* with the counts c1 and c2, against the same healthy backend, then under
\* every interleaving of their get_all_values, update_cell and append_row
\* steps the total count the table holds for the key has grown by c1 + c2.
C28_NoLostUpdate ==
    ( /\ \A s \in Sessions : inflight[s].op = "insert" /\ inflight[s].pc = "done"
      /\ inflight["s1"].key = inflight["s2"].key ) =>
        BackendTotal(records_ws, inflight["s1"].key)
            = BackendTotal(SharedWorkbook.rec, inflight["s1"].key)
                + inflight["s1"].count + inflight["s2"].count

-----------------------------------------------------------------------------
(* load_all_records returns a snapshot *)

\* C29: the sequence of records load_all_records returned is not changed by
\* any later insert_or_update_record, whether the backend or the local
\* fallback served the read: what the caller reads in the list it keeps is
\* what was returned.
C29_LoadReturnsSnapshot ==
    records.kept => RecordsNow = records.value

-----------------------------------------------------------------------------
(* The dashboard after a submission *)

\* the world after the inserts of a submission, before its reload
AfterInserts(w, d, name, new_cnt, exist_cnt, f) ==
    InsertIfPositive(InsertIfPositive(w, d, name, "new", new_cnt, f),
                     d, name, "exist", exist_cnt, f)

\* C30: a form submission that stores at least one record, made in any
\* state of the session and of the 60-second read cache, leaves in
\* st.session_state.data the result of a load_all_records taken after its
\* inserts, and that result in the cache - never the result the cache held
\* before them.
C30_DashboardShowsSaved ==
    data.set =>
        \A d \in FormDates, name \in FormNames, new_cnt \in FormCounts,
           exist_cnt \in FormCounts,
           f \in ReloadPatterns \cup {{"update_cell"}, {"append_row"}} :
            new_cnt + exist_cnt > 0 =>
                LET r == app_form(World, cache, data, d, name, new_cnt, exist_cnt, f)
                    fresh == load_all_records(
                                 AfterInserts(World, d, name, new_cnt, exist_cnt, f), f)
                IN  /\ r.data = [set |-> TRUE, value |-> fresh.out]
                    /\ r.cache = [valid |-> TRUE, value |-> fresh.out]
                    /\ r.w = fresh.w

\* a second submission for the same staff member and day was made while the
\* cache held the result loaded after the first one, and the session's data
\* shows the sum of both
C30_Witness ==
    /\ last.op = "app_form" /\ last.count > 0 /\ last.clean
    /\ calls.insert = 2
    /\ _backend_available
    /\ data.set /\ cache.valid /\ data.value = cache.value
    /\ Len(data.value) = 1 /\ data.value[1].count = 3

====
